---------------------------- MODULE Spec2Model ----------------------------
(* A model of buildsrc_lib (src/buildsrc_lib/__init__.py): the Webmin      *)
(* packaging helper.  Python strings are sequences of one-character        *)
(* strings, so that substring tests, str.replace, str.split and version    *)
(* parsing are computed as the code computes them.                         *)
EXTENDS Integers, Sequences, FiniteSets, TLC

(***************************************************************************)
(* Bounds of the model.                                                    *)
(***************************************************************************)
\* Most lines the release-listing helper prints.
MaxLines == 2

\* Most pieces a raw depends value is made of.
MaxPieces == 3

\* Most lines of the quilt patch.
MaxPatchLines == 3

\* Most characters of a line given to trim_line.
MaxChars == 5

\* Widest line_length given to trim_line.
MaxWidth == 3

(***************************************************************************)
(* Python str and list primitives.                                         *)
(***************************************************************************)
Range(s) == {s[i] : i \in 1..Len(s)}

\* All sequences over S of length at most n.
SeqsUpTo(S, n) == UNION {[1..k -> S] : k \in 0..n}

\* s[a:] and s[:b] with 1-based bounds.
Drop(s, n) == SubSeq(s, n + 1, Len(s))
Take(s, n) == SubSeq(s, 1, n)

\* s.startswith(p)
StartsWith(s, p) == Len(p) <= Len(s) /\ Take(s, Len(p)) = p

\* The least member of a set of positions, 0 for the empty set.
FirstOf(hits) == IF hits = {} THEN 0 ELSE CHOOSE i \in hits : \A j \in hits : i <= j

\* s.find(sub) + 1: the first position (1-based) where sub occurs, 0 if none.
Find(s, sub) ==
  FirstOf({i \in 1..(Len(s) - Len(sub) + 1) : SubSeq(s, i, i + Len(sub) - 1) = sub})

\* sub in s
Contains(s, sub) == Find(s, sub) # 0

\* s.replace(old, new) for a non-empty old: left to right, non-overlapping;
\* i is the first place old occurs at in s.
RECURSIVE ReplaceFrom(_, _, _, _)
ReplaceFrom(s, old, new, i) ==
  IF i = 0 THEN s
  ELSE Take(s, i - 1) \o new
       \o ReplaceFrom(Drop(s, i - 1 + Len(old)), old, new,
                      Find(Drop(s, i - 1 + Len(old)), old))

Replace(s, old, new) == ReplaceFrom(s, old, new, Find(s, old))

\* x in lst
InList(x, lst) == \E i \in 1..Len(lst) : lst[i] = x

(***************************************************************************)
(* packaging.version.Version, on strings over digits, "." and "b".         *)
(* The grammar of the library restricted to that alphabet is               *)
(*     N(.N)* [ [.] b [.] [N] ]                                            *)
(* and the comparison key is the release with trailing zeros removed,      *)
(* then the pre-release number (a final release sorts after all of its     *)
(* pre-releases).                                                          *)
(***************************************************************************)
Digits == {"0", "1", "2", "3", "4", "5", "6", "7", "8", "9"}

DigitVal(c) ==
  CASE c = "0" -> 0 [] c = "1" -> 1 [] c = "2" -> 2 [] c = "3" -> 3 [] c = "4" -> 4
    [] c = "5" -> 5 [] c = "6" -> 6 [] c = "7" -> 7 [] c = "8" -> 8 [] c = "9" -> 9

AllDigits(s) == \A i \in 1..Len(s) : s[i] \in Digits

\* int(s) for a string of digits.
RECURSIVE ToInt(_)
ToInt(s) == IF s = <<>> THEN 0 ELSE 10 * ToInt(Take(s, Len(s) - 1)) + DigitVal(s[Len(s)])

\* s.split("."): the fields between the dots (empty fields kept); i is the
\* place of the first dot of s.
RECURSIVE SplitDotsFrom(_, _)
SplitDotsFrom(s, i) ==
  IF i = 0 THEN <<s>>
  ELSE <<Take(s, i - 1)>> \o SplitDotsFrom(Drop(s, i), Find(Drop(s, i), <<".">>))

SplitDots(s) == SplitDotsFrom(s, Find(s, <<".">>))

\* The release grammar N(.N)* on the fields of a release text.
ValidFields(f) == \A i \in 1..Len(f) : f[i] # <<>> /\ AllDigits(f[i])
ValidRelease(s) == ValidFields(SplitDots(s))

RECURSIVE StripZeros(_)
StripZeros(r) ==
  IF r # <<>> /\ r[Len(r)] = 0 THEN StripZeros(Take(r, Len(r) - 1)) ELSE r

FieldInts(f) == [i \in 1..Len(f) |-> ToInt(f[i])]
ReleaseOf(s) == FieldInts(SplitDots(s))

\* The pre-release field of a final release (it sorts after every number).
Final == -1

\* One separator "." is allowed before and after the pre-release letter.
StripDotEnd(h) == IF h # <<>> /\ h[Len(h)] = "." THEN Take(h, Len(h) - 1) ELSE h
StripDotStart(t) == IF t # <<>> /\ t[1] = "." THEN Drop(t, 1) ELSE t

\* The parts of a version string whose first "b" is at k (0: none): the
\* release text and the pre-release number text.
PartsAt(s, k) ==
  IF k = 0 THEN [rel |-> s, pre |-> <<>>, has_pre |-> FALSE]
  ELSE [rel |-> StripDotEnd(Take(s, k - 1)), pre |-> StripDotStart(Drop(s, k)),
        has_pre |-> TRUE]

VersionParts(s) == PartsAt(s, Find(s, <<"b">>))

\* Whether Version(s) is constructed (otherwise InvalidVersion is raised).
ValidParts(p) == ValidRelease(p.rel) /\ AllDigits(p.pre)
ValidVersion(s) == ValidParts(VersionParts(s))

\* Version(s): the comparison key of a valid version string.
KeyOf(p) ==
  [rel |-> StripZeros(ReleaseOf(p.rel)),
   pre |-> IF p.has_pre THEN ToInt(p.pre) ELSE Final]

Version(s) == KeyOf(VersionParts(s))

is_prerelease(v) == v.pre # Final

\* Python's tuple order on releases.
RECURSIVE TupleLess(_, _)
TupleLess(a, b) ==
  IF a = <<>> THEN b # <<>>
  ELSE IF b = <<>> THEN FALSE
  ELSE IF a[1] # b[1] THEN a[1] < b[1]
  ELSE TupleLess(Drop(a, 1), Drop(b, 1))

\* Version.__lt__
VersionLess(a, b) ==
  \/ TupleLess(a.rel, b.rel)
  \/ a.rel = b.rel /\ a.pre # Final /\ (b.pre = Final \/ a.pre < b.pre)

(***************************************************************************)
(* Results of a call: a return value, a raised exception or sys.exit.      *)
(***************************************************************************)
Return(v) == [kind |-> "return", val |-> v, exc |-> "", msg |-> "", code |-> 0]
Raise(e, m) == [kind |-> "raise", val |-> <<>>, exc |-> e, msg |-> m, code |-> 0]
Exit(c) == [kind |-> "exit", val |-> <<>>, exc |-> "", msg |-> "", code |-> c]

(***************************************************************************)
(* The version strings of the model.                                       *)
(***************************************************************************)
V10 == <<"1", ".", "0">>
V100 == <<"1", ".", "0", ".", "0">>
V11 == <<"1", ".", "1">>
V20b1 == <<"2", ".", "0", "b", "1">>
NotAVersion == <<"b">>
LATEST == <<"l", "a", "t", "e", "s", "t">>

\* What the helper may print on a line: versions, an empty line, a bad token.
HelperLines == {V10, V100, V11, V20b1, <<>>, NotAVersion}

\* What the local version file may hold (never empty: get_local_version).
LocalVersions == {V10, V100, V11, NotAVersion}

\* The versions a caller asks get_remote_version for.
RequestVersions == {LATEST, V10, V11, V20b1}

(***************************************************************************)
(* get_remote_versions                                                     *)
(***************************************************************************)
\* Mutant: an equal key keeps the value it has.
DictSetKeepFirst(d, key, val) ==
  IF \E i \in 1..Len(d) : d[i].key = key THEN d
  ELSE Append(d, [key |-> key, val |-> val])

\* _versions[key] = val on a dict kept as its items in insertion order: an
\* equal key keeps its place and its first key object, and takes the new value.
DictSet(d, key, val) ==
  IF \E i \in 1..Len(d) : d[i].key = key
  THEN [i \in 1..Len(d) |-> IF d[i].key = key THEN [key |-> key, val |-> val] ELSE d[i]]
  ELSE Append(d, [key |-> key, val |-> val])

\* The body of the loop for a valid line: a stable version is recorded, a
\* pre-release only without stable_only.
AddVersion(d, _version, version, stable_only) ==
  IF ~is_prerelease(_version) THEN DictSet(d, _version, version)
  ELSE IF ~stable_only THEN DictSet(d, _version, version)
  ELSE d

\* One line of the helper's output: an empty line is skipped.
AddLine(d, version, stable_only) ==
  IF version = <<>> THEN d ELSE AddVersion(d, Version(version), version, stable_only)

\* The loop over the helper's lines: the dict built from the lines, or not
\* ok as soon as a non-empty line is no version (InvalidVersion).
RECURSIVE CollectVersions(_, _, _)
CollectVersions(lines, stable_only, d) ==
  IF lines = <<>> THEN [ok |-> TRUE, d |-> d]
  ELSE IF lines[1] # <<>> /\ ~ValidVersion(lines[1]) THEN [ok |-> FALSE, d |-> d]
  ELSE CollectVersions(Drop(lines, 1), stable_only, AddLine(d, lines[1], stable_only))

\* The greatest item of a non-empty dict.
MaxItem(d) == CHOOSE i \in 1..Len(d) : \A j \in 1..Len(d) : ~VersionLess(d[i].key, d[j].key)

RemoveAt(d, m) == [i \in 1..(Len(d) - 1) |-> IF i < m THEN d[i] ELSE d[i + 1]]

\* sorted(_versions.items(), reverse=True): the keys are distinct; m is the
\* place of the greatest item.
RECURSIVE SortedFrom(_, _)
SortedFrom(d, m) ==
  IF d = <<>> THEN <<>>
  ELSE <<d[m]>> \o SortedFrom(RemoveAt(d, m),
                              IF Len(d) = 1 THEN 0 ELSE MaxItem(RemoveAt(d, m)))

SortedReverse(d) == SortedFrom(d, IF d = <<>> THEN 0 ELSE MaxItem(d))

Values(items) == [i \in 1..Len(items) |-> items[i].val]

\* The end of get_remote_versions, given the result of the loop.
RemoteVersionsResult(c) ==
  IF ~c.ok THEN Raise("WebminUpdateError", "InvalidVersion")
  ELSE IF c.d # <<>> THEN Return(Values(SortedReverse(c.d)))
  ELSE Raise("WebminUpdateError", "Remote Webmin version not found")

get_remote_versions(proc_ok, stdout, stable_only) ==
  IF ~proc_ok THEN Raise("WebminUpdateError", "gh_releases failed")
  ELSE RemoteVersionsResult(CollectVersions(stdout, stable_only, <<>>))

(***************************************************************************)
(* untar                                                                   *)
(***************************************************************************)
\* A path of the file system: absent, a regular file, or a directory with
\* the names it holds.
Absent == [kind |-> "absent", files |-> {}]
File == [kind |-> "file", files |-> {}]
Dir(names) == [kind |-> "dir", files |-> names]

\* os.remove(path): unlinks a file; a directory makes it raise
\* IsADirectoryError (an OSError) and stay.
OsRemove(p) ==
  IF p.kind = "dir" THEN [path |-> p, res |-> Raise("IsADirectoryError", "os.remove")]
  ELSE [path |-> Absent, res |-> Return(<<>>)]

\* untar(outdir, tarball, force): the path afterwards and the result, for an
\* archive with the given members.
untar(outdir, members, frc) ==
  LET removed == IF outdir.kind # "absent" /\ frc THEN OsRemove(outdir)
                 ELSE [path |-> outdir, res |-> Return(<<>>)]
  IN IF outdir.kind # "absent" /\ ~frc
     THEN [path |-> outdir, res |-> Raise("WebminUpdateError", "exists; use --force")]
     ELSE IF removed.res.kind = "raise" THEN removed
     ELSE [path |-> Dir(members), res |-> Return(<<>>)]

(***************************************************************************)
(* Plugin: the module and theme metadata and its control stanza.           *)
(***************************************************************************)
RAID == <<"r", "a", "i", "d">>
FDISK == <<"f", "d", "i", "s", "k">>
LVM == <<"l", "v", "m">>
MINIMAL_INSTALL == <<"m", "i", "n", "i", "m", "a", "l", "-", "i", "n", "s", "t", "a", "l", "l">>
EXTRA == <<"e", "x", "t", "r", "a">>

Whitespace == {" ", "\n", "\t"}

\* s.split(): the maximal runs of non-whitespace of s; cur is the run being
\* read.
RECURSIVE SplitWs(_, _)
SplitWs(s, cur) ==
  IF s = <<>> THEN (IF cur = <<>> THEN <<>> ELSE <<cur>>)
  ELSE IF s[1] \in Whitespace
       THEN (IF cur = <<>> THEN <<>> ELSE <<cur>>) \o SplitWs(Drop(s, 1), <<>>)
       ELSE SplitWs(Drop(s, 1), Append(cur, s[1]))

Split(s) == SplitWs(s, <<>>)

\* sep.join(lst)
RECURSIVE Join(_, _)
Join(lst, sep) ==
  IF lst = <<>> THEN <<>>
  ELSE IF Len(lst) = 1 THEN lst[1]
  ELSE lst[1] \o sep \o Join(Drop(lst, 1), sep)

\* Plugin._fix_deps(plugin, deps)
_fix_deps(plugin, deps) ==
  IF plugin = FDISK THEN Replace(deps, RAID, <<>>)
  ELSE IF plugin = LVM /\ ~Contains(deps, RAID) THEN deps \o <<" ">> \o RAID
  ELSE deps

\* Plugin.debian_support
debian_support(os_support) ==
  \/ os_support = <<"!", "w", "i", "n", "d", "o", "w", "s">>
  \/ Contains(os_support, <<"d", "e", "b", "i", "a", "n", "-", "l", "i", "n", "u", "x">>)
  \/ Contains(os_support, <<"*", "-", "l", "i", "n", "u", "x">>)
  \/ os_support = <<>>

\* The width over which the Depends line is broken, one dependency a line.
DependsWidth == 60

\* The loop of control over the tokens: a token starting with a digit is
\* skipped, a token in installable_mods becomes webmin-<token>.
KeptDepends(tokens, installable_mods) ==
  SelectSeq(tokens, LAMBDA depend : ~(depend[1] \in Digits) /\ InList(depend, installable_mods))

PackageNames(names) == [i \in 1..Len(names) |-> <<"w", "e", "b", "m", "i", "n", "-">> \o names[i]]

ctrl_depends(name, depends, version, installable_mods) ==
  <<<<"w", "e", "b", "m", "i", "n", " ", "(", ">", "=", " ">> \o version \o <<")">>>>
    \o PackageNames(KeptDepends(Split(_fix_deps(name, depends)), installable_mods))

\* joined_depends of a list of dependencies.
JoinedDepends(deps) ==
  IF Len(<<"D", "e", "p", "e", "n", "d", "s", ":", " ">> \o Join(deps, <<",", " ">>)) > DependsWidth
  THEN <<"\n", " ">> \o Join(deps, <<",", "\n", " ">>)
  ELSE Join(deps, <<",", " ">>)

\* Plugin.control: the Package and Depends fields of the stanza.  (The
\* Description field does not feed them.)
control(plugin) ==
  [Source |-> <<>>,
   Package |-> <<"w", "e", "b", "m", "i", "n", "-">> \o plugin.name,
   Depends |-> JoinedDepends(ctrl_depends(plugin.name, plugin.depends, plugin.version,
                                          plugin.installable_mods))]

\* source_control and webmin_core_control
source_control == [Source |-> <<"w", "e", "b", "m", "i", "n">>, Package |-> <<>>, Depends |-> <<>>]
webmin_core_control ==
  [Source |-> <<>>, Package |-> <<"w", "e", "b", "m", "i", "n">>,
   Depends |-> <<"\n", " ", "l", "i", "b", "a", "u", "t", "h", "e", "n", "-", "p", "a", "m", "-", "p", "e", "r", "l", ",", "\n", " ", "l", "i", "b", "i", "o", "-", "p", "t", "y", "-", "p", "e", "r", "l", ",", "\n", " ", "l", "i", "b", "n", "e", "t", "-", "s", "s", "l", "e", "a", "y", "-", "p", "e", "r", "l", ",", "\n", " ", "l", "i", "b", "p", "a", "m", "-", "r", "u", "n", "t", "i", "m", "e", ",", "\n", " ", "o", "p", "e", "n", "s", "s", "l", ",", "\n", " ", "p", "e", "r", "l", ",", "\n", " ", "$", "{", "m", "i", "s", "c", ":", "D", "e", "p", "e", "n", "d", "s", "}", ",">>]

\* The plugin directories of the model, in the order of sorted().
NameOrder == <<FDISK, LVM, RAID>>
PluginNames == Range(NameOrder)

\* An entry of the full tree: absent, a regular file, or a directory with
\* the info file it holds (module.info, theme.info or none), whether a line
\* of it has no "=", its os_support and depends values, and the target when
\* the directory is a symbolic link.
Entry(kind, info_file, malformed, os_support, depends, link) ==
  [kind |-> kind, info_file |-> info_file, malformed |-> malformed,
   os_support |-> os_support, depends |-> depends, link |-> link]

NoEntry == Entry("absent", "none", FALSE, <<>>, <<>>, <<>>)
FileEntry == Entry("file", "none", FALSE, <<>>, <<>>, <<>>)
PluginDir(info_file, os_support, depends) ==
  Entry("dir", info_file, FALSE, os_support, depends, <<>>)

\* Plugin.__post_init__ for a directory with a well-formed info file: the
\* target of a link is added to the depends value.
NewPlugin(name, e, version, installable_mods) ==
  [name |-> name, type |-> e.info_file, version |-> version,
   os_support |-> e.os_support,
   depends |-> IF e.link # <<>> THEN e.depends \o <<" ">> \o e.link ELSE e.depends,
   link |-> e.link, installable_mods |-> installable_mods]

NoPlugin == NewPlugin(<<>>, NoEntry, <<>>, <<>>)

(***************************************************************************)
(* State.                                                                  *)
(***************************************************************************)
VARIABLES
  gh_ok,            \* the release-listing helper runs and exits with 0
  gh_stdout,        \* the lines the helper prints
  force,            \* Webmin.force
  local_version,    \* Webmin.local_version
  remote_versions,  \* Webmin.remote_versions, the cached list
  git,              \* CWD/.git exists
  tmp_exists,       \* the directory TMP exists
  keyring,          \* the file KEYRING (TMP/webmin.gpg) exists
  fs,               \* the paths TMP/all and TMP/core
  pc,               \* where a running Webmin.download is
  arch,             \* the archive download is at: 1 the full, 2 the minimal
  dl_version,       \* the version download resolved
  log,              \* the external calls of the running download, in order
  core_only,        \* the names only in the minimal tree (dircmp.left_only)
  full,             \* the entries only in the full tree, by name
  min_version,      \* the version file of the minimal tree
  modules,          \* Webmin.modules
  themes,           \* Webmin.themes
  loaded,           \* "no" until load_plugins sets modules and themes, then how the last load ended
  constructed,      \* the names Plugin() was constructed for by load_plugins
  plugin_dirs,      \* the names under CWD/modules and CWD/themes
  plugin,           \* a Plugin whose control is asked for
  trim,             \* a running trim_line: its arguments and local variables
  webmin_core,      \* the directory WEBMIN_CORE
  patch,            \* debian/patches/fix-module-dependencies.diff
  call,             \* the last call made: its name and arguments
  ret               \* the result of the last call

verVars == <<gh_ok, gh_stdout, force, local_version, remote_versions>>
dlVars == <<git, tmp_exists, keyring, fs, pc, arch, dl_version, log>>
plugVars == <<core_only, full, min_version, modules, themes, loaded, constructed,
              plugin_dirs, plugin, trim, webmin_core>>
quiltVars == <<patch>>
vars == <<verVars, dlVars, plugVars, quiltVars, call, ret>>

\* No trim_line running.
NoTrim == [pc |-> "idle", line |-> <<>>, line_length |-> 0, start_index |-> 0,
           last_safe_split |-> 0, i |-> 0, lines_to_return |-> <<>>]

\* No patch file.
NoPatch == [exists |-> FALSE, writable |-> FALSE, lines |-> <<>>]

NoCall == [op |-> "none", version |-> <<>>, stable_only |-> FALSE,
           force_update |-> FALSE, check_only |-> FALSE,
           force_arg |-> "None", path |-> "", members |-> {}, before |-> Absent,
           skip_validation |-> FALSE, core_only |-> <<>>,
           full |-> [n \in PluginNames |-> NoEntry], old |-> <<>>, new |-> <<>>,
           patch |-> NoPatch,
           trees |-> [plugin_dirs |-> [modules |-> {}, themes |-> {}],
                      webmin_core |-> Absent]]
NoRet == [kind |-> "none", val |-> <<>>, exc |-> "", msg |-> "", code |-> 0]

Paths == {"all", "core"}

\* The parts of the state that play no role in a specification.
IdleVersions ==
  /\ gh_ok = TRUE /\ gh_stdout = <<>> /\ force = FALSE
  /\ local_version = V10 /\ remote_versions = <<>>

IdlePlugins ==
  /\ core_only = <<>> /\ full = [n \in PluginNames |-> NoEntry] /\ min_version = <<>>
  /\ modules = <<>> /\ themes = <<>> /\ loaded = "no" /\ constructed = <<>>
  /\ plugin_dirs = [modules |-> {}, themes |-> {}]
  /\ plugin = NoPlugin
  /\ trim = NoTrim
  /\ webmin_core = Absent

IdleQuilt == patch = NoPatch

IdleDownload ==
  /\ git = TRUE /\ tmp_exists = TRUE /\ keyring = FALSE
  /\ fs = [p \in Paths |-> Absent]
  /\ pc = "idle" /\ arch = 1 /\ dl_version = <<>> /\ log = <<>>

(***************************************************************************)
(* Webmin: the version resolver.                                           *)
(***************************************************************************)
\* Webmin.get_remote_version: the list the call answers against (refreshed
\* only when nothing is cached or force_update) and its result.
RemoteVersionCall(cached, version, stable_only, force_update) ==
  LET fetch == ~(cached # <<>>) \/ force_update
      got == get_remote_versions(gh_ok, gh_stdout, stable_only)
      lst == IF fetch /\ got.kind = "return" THEN got.val ELSE cached
  IN [cache |-> lst,
      res |-> IF fetch /\ got.kind = "raise" THEN got
              ELSE IF version = LATEST THEN Return(lst[1])
              ELSE IF InList(version, lst) THEN Return(version)
              ELSE Raise("WebminUpdateError", "version not found or not valid")]

\* Webmin.new_version, given the remote version latest_version returned.
NewVersionResult(local_v, remote_v, check_only, frc) ==
  IF ~ValidVersion(local_v) THEN Raise("InvalidVersion", "")
  ELSE IF VersionLess(Version(local_v), Version(remote_v))
       THEN IF check_only THEN Exit(0) ELSE Return(remote_v)
  ELSE IF local_v = remote_v
       THEN IF check_only THEN Exit(100)
            ELSE IF frc THEN Return(remote_v) ELSE Return(<<>>)
  ELSE Raise("WebminUpdateError", "local Webmin version is newer than remote")

InitVersions ==
  /\ gh_ok \in BOOLEAN
  /\ gh_stdout \in (IF gh_ok THEN SeqsUpTo(HelperLines, MaxLines) ELSE {<<>>})
  /\ force \in BOOLEAN
  /\ local_version \in LocalVersions
  /\ remote_versions = <<>>
  /\ IdleDownload /\ IdlePlugins /\ IdleQuilt
  /\ call = NoCall
  /\ ret = NoRet

\* get_remote_versions("webmin/webmin", stable_only)
GetRemoteVersions(stable_only) ==
  /\ call' = [NoCall EXCEPT !.op = "get_remote_versions", !.stable_only = stable_only]
  /\ ret' = get_remote_versions(gh_ok, gh_stdout, stable_only)
  /\ UNCHANGED <<verVars, dlVars, plugVars, quiltVars>>

\* Webmin.get_remote_version(version, stable_only, force_update)
GetRemoteVersion(version, stable_only, force_update) ==
  LET r == RemoteVersionCall(remote_versions, version, stable_only, force_update)
  IN /\ call' = [NoCall EXCEPT !.op = "get_remote_version", !.version = version,
                               !.stable_only = stable_only, !.force_update = force_update]
     /\ remote_versions' = r.cache
     /\ ret' = r.res
     /\ UNCHANGED <<gh_ok, gh_stdout, force, local_version, dlVars, plugVars, quiltVars>>

\* Webmin.new_version(check_only); latest_version is get_remote_version().
NewVersion(check_only) ==
  LET r == RemoteVersionCall(remote_versions, LATEST, TRUE, FALSE)
  IN /\ call' = [NoCall EXCEPT !.op = "new_version", !.check_only = check_only]
     /\ remote_versions' = r.cache
     /\ ret' = IF r.res.kind = "raise" THEN r.res
               ELSE NewVersionResult(local_version, r.res.val, check_only, force)
     /\ UNCHANGED <<gh_ok, gh_stdout, force, local_version, dlVars, plugVars, quiltVars>>

NextVersions ==
  \/ \E so \in BOOLEAN : GetRemoteVersions(so)
  \/ \E v \in RequestVersions, so \in BOOLEAN, fu \in BOOLEAN :
       GetRemoteVersion(v, so, fu)
  \/ \E co \in BOOLEAN : NewVersion(co)

SpecVersions == InitVersions /\ [][NextVersions]_vars

(***************************************************************************)
(* Claims about the version resolver, checked under SpecVersions.          *)
(***************************************************************************)
\* The non-empty lines of the helper's output, and the stable ones.
NonEmptyLines == {i \in 1..Len(gh_stdout) : gh_stdout[i] # <<>>}
AllLinesValid == \A i \in NonEmptyLines : ValidVersion(gh_stdout[i])
StableLines == {i \in NonEmptyLines : ~is_prerelease(Version(gh_stdout[i]))}

StrictlyDescending(lst) ==
  \A i \in 1..(Len(lst) - 1) : VersionLess(Version(lst[i + 1]), Version(lst[i]))

\* The call new_version() has returned or raised with a remote version known.
NewVersionDone ==
  /\ call.op = "new_version" /\ ~call.check_only
  /\ remote_versions # <<>> /\ ValidVersion(local_version)

\* C2: new_version is a three-way decision on the version order of the local
\* and the newest remote version: local < remote returns the remote string,
\* local equal to remote as versions returns "" (the remote string under
\* force), and WebminUpdateError is raised if and only if local > remote.
C2_ThreeWayOnVersionOrder ==
  NewVersionDone =>
    LET remote_v == remote_versions[1]
        l == Version(local_version)
        r == Version(remote_v)
    IN /\ VersionLess(l, r) => ret = Return(remote_v)
       /\ l = r => ret = Return(IF force THEN remote_v ELSE <<>>)
       /\ (ret.kind = "raise" /\ ret.exc = "WebminUpdateError") <=> VersionLess(r, l)

\* C4 as stated: with every non-empty line valid, get_remote_versions with
\* stable_only returns exactly the original strings of the stable lines, none
\* a pre-release, strictly descending; it raises when there is none.
C4_ExactlyTheStableStrings ==
  (call.op = "get_remote_versions" /\ call.stable_only /\ gh_ok /\ AllLinesValid) =>
    IF StableLines = {} THEN ret = Raise("WebminUpdateError", "Remote Webmin version not found")
    ELSE /\ ret.kind = "return"
         /\ Range(ret.val) = {gh_stdout[i] : i \in StableLines}
         /\ \A i \in 1..Len(ret.val) : ~is_prerelease(Version(ret.val[i]))
         /\ StrictlyDescending(ret.val)

\* C4 amended: with every non-empty line valid, get_remote_versions with
\* stable_only returns one original string per distinct stable version, the
\* spelling printed last among the lines equal as versions, none of them a
\* pre-release, strictly descending; it raises when no line is stable.
C4_OneSpellingPerStableVersion ==
  (call.op = "get_remote_versions" /\ call.stable_only /\ gh_ok /\ AllLinesValid) =>
    IF StableLines = {} THEN ret = Raise("WebminUpdateError", "Remote Webmin version not found")
    ELSE /\ ret.kind = "return"
         /\ {Version(ret.val[i]) : i \in 1..Len(ret.val)}
              = {Version(gh_stdout[i]) : i \in StableLines}
         /\ \A i \in 1..Len(ret.val) :
              \E j \in StableLines :
                /\ gh_stdout[j] = ret.val[i]
                /\ \A k \in StableLines :
                     Version(gh_stdout[k]) = Version(ret.val[i]) => k <= j
         /\ \A i \in 1..Len(ret.val) : ~is_prerelease(Version(ret.val[i]))
         /\ StrictlyDescending(ret.val)

\* C4 witness: the helper printed a pre-release and a stable version, and the
\* stable-only listing returned.
C4_Witness ==
  /\ call.op = "get_remote_versions" /\ call.stable_only /\ gh_ok /\ AllLinesValid
  /\ StableLines # {} /\ StableLines # NonEmptyLines
  /\ ret.kind = "return"

\* C5: every get_remote_version call answers against the list resolved for
\* its own stable_only argument: "latest" is the newest entry of that list, an
\* explicit version is returned only if it is in that list, anything else
\* raises; a stable_only call never returns a pre-release.
C5_AnswersForOwnStableOnly ==
  LET resolved == get_remote_versions(gh_ok, gh_stdout, call.stable_only)
  IN (call.op = "get_remote_version" /\ resolved.kind = "return") =>
       /\ ret = IF call.version = LATEST THEN Return(resolved.val[1])
                ELSE IF InList(call.version, resolved.val) THEN Return(call.version)
                ELSE Raise("WebminUpdateError", "version not found or not valid")
       /\ (call.stable_only /\ ret.kind = "return") => ~is_prerelease(Version(ret.val))

(***************************************************************************)
(* Webmin.download and Webmin._validate_file, one action per external      *)
(* call: the HTTP fetches, the keyring import, the signature check and     *)
(* the extraction.                                                         *)
(***************************************************************************)
WebminDir(version) == <<"w", "e", "b", "m", "i", "n", "-">> \o version

\* The files of a run: the tarball and the signature of archive a, the key.
Tarball(a) == [arch |-> a, part |-> "tarball"]
Sig(a) == [arch |-> a, part |-> "sig"]
SigningKey == [arch |-> 0, part |-> "key"]

Event(ev, file, ok) == [ev |-> ev, file |-> file, ok |-> ok]

\* The staging directory of archive a: the name ending in "minimal" (the
\* second) goes to TMP/core, the other to TMP/all.
StagingPath(a) == IF a = 2 THEN "core" ELSE "all"

\* The guard of download(): no ".git" and no force on the instance.
DownloadRefused(has_git, self_force, force_arg) == ~has_git /\ ~self_force

\* Mutant: the return code of gpg --verify is not looked at.
ValidateOkIgnored(rc_ok) == TRUE

\* validate.returncode == 0
ValidateOk(rc_ok) == rc_ok

\* The run ends with an exception.
Abort(r) == pc' = "idle" /\ ret' = r

\* download(version, force) up to the first fetch: the guard, then the
\* version through latest_version or get_remote_version(version).
DownloadStart(version, force_arg) ==
  LET r == RemoteVersionCall(remote_versions,
                             IF version = <<>> THEN LATEST ELSE version, TRUE, FALSE)
  IN /\ pc = "idle"
     /\ call' = [NoCall EXCEPT !.op = "download", !.version = version,
                               !.force_arg = force_arg]
     /\ log' = <<>>
     /\ arch' = 1
     /\ IF DownloadRefused(git, force, force_arg)
        THEN /\ Abort(Raise("WebminUpdateError", "No '.git' dir found"))
             /\ UNCHANGED <<remote_versions, dl_version>>
        ELSE /\ remote_versions' = r.cache
             /\ IF r.res.kind = "raise"
                THEN Abort(r.res) /\ UNCHANGED dl_version
                ELSE pc' = "get_tarball" /\ ret' = NoRet /\ dl_version' = r.res.val
     /\ UNCHANGED <<gh_ok, gh_stdout, force, local_version, git, tmp_exists, keyring, fs,
                    plugVars, quiltVars>>

\* download(file_path, file_url) for the tarball, then for its signature:
\* requests.get, response.ok, and the write under TMP.
Fetch(at, file, next) ==
  /\ pc = at
  /\ \E response_ok \in BOOLEAN :
       /\ log' = Append(log, Event("get", file, response_ok))
       /\ IF ~response_ok THEN Abort(Raise("WebminUpdateError", "Failed to download url"))
          ELSE IF ~tmp_exists THEN Abort(Raise("FileNotFoundError", "open"))
          ELSE pc' = next /\ UNCHANGED ret
  /\ UNCHANGED <<verVars, git, tmp_exists, keyring, fs, arch, dl_version, call, plugVars,
                 quiltVars>>

FetchTarball == Fetch("get_tarball", Tarball(arch), "get_sig")
FetchSig == Fetch("get_sig", Sig(arch), "validate")

\* _validate_file: gpg --import when KEYRING does not exist.
ImportKey ==
  /\ pc = "validate" /\ ~keyring
  /\ \E import_ok \in BOOLEAN :
       /\ log' = Append(log, Event("import", SigningKey, import_ok))
       /\ keyring' = import_ok
       /\ IF import_ok THEN pc' = "verify" /\ UNCHANGED ret
          ELSE Abort(Raise("WebminUpdateError", "gpg --import"))
  /\ UNCHANGED <<verVars, git, tmp_exists, fs, arch, dl_version, call, plugVars, quiltVars>>

\* _validate_file: gpg --verify sig file.
Verify ==
  /\ pc = "verify" \/ (pc = "validate" /\ keyring)
  /\ \E rc_ok \in BOOLEAN :
       /\ log' = Append(log, Event("verify", Tarball(arch), rc_ok))
       /\ IF ValidateOk(rc_ok) THEN pc' = "untar" /\ UNCHANGED ret
          ELSE Abort(Raise("WebminUpdateError", "gpg --verify"))
  /\ UNCHANGED <<verVars, git, tmp_exists, keyring, fs, arch, dl_version, call, plugVars,
                 quiltVars>>

\* untar(tmp, tarball) of the archive at hand, then the next archive or the
\* end of download(): back to update() when update() called it.
Extract ==
  LET p == StagingPath(arch)
      r == untar(fs[p], {WebminDir(dl_version)}, FALSE)
  IN /\ pc = "untar"
     /\ fs' = [fs EXCEPT ![p] = r.path]
     /\ IF r.res.kind = "raise"
        THEN Abort(r.res) /\ UNCHANGED <<log, arch>>
        ELSE /\ log' = Append(log, Event("untar", Tarball(arch), TRUE))
             /\ IF arch = 1 THEN pc' = "get_tarball" /\ arch' = 2 /\ UNCHANGED ret
                ELSE IF call.op = "update" THEN pc' = "rename" /\ UNCHANGED <<ret, arch>>
                ELSE pc' = "idle" /\ ret' = Return(<<>>) /\ UNCHANGED arch
     /\ UNCHANGED <<verVars, git, tmp_exists, keyring, dl_version, call, plugVars, quiltVars>>

\* What TMP/all and TMP/core may be when download() is called.
StagingStates == {Absent, File, Dir({}), Dir({WebminDir(V10)})}

InitDownload ==
  /\ gh_ok \in BOOLEAN
  /\ gh_stdout = (IF gh_ok THEN <<V11, V10>> ELSE <<>>)
  /\ force \in BOOLEAN
  /\ local_version = V10
  /\ remote_versions = <<>>
  /\ git \in BOOLEAN
  /\ tmp_exists \in BOOLEAN
  /\ keyring \in (IF tmp_exists THEN BOOLEAN ELSE {FALSE})
  /\ fs \in (IF tmp_exists THEN [Paths -> StagingStates] ELSE {[p \in Paths |-> Absent]})
  /\ pc = "idle" /\ arch = 1 /\ dl_version = <<>> /\ log = <<>>
  /\ IdlePlugins /\ IdleQuilt
  /\ call = NoCall
  /\ ret = NoRet

NextDownload ==
  \/ \E v \in {<<>>, V10, V20b1}, f \in {"None", "True", "False"} : DownloadStart(v, f)
  \/ FetchTarball
  \/ FetchSig
  \/ ImportKey
  \/ Verify
  \/ Extract

SpecDownload == InitDownload /\ [][NextDownload]_vars

(***************************************************************************)
(* untar called on its own.                                                *)
(***************************************************************************)
MemberNames == {<<"a">>, <<"b">>}
OutdirStates == {Absent, File} \cup {Dir(n) : n \in SUBSET MemberNames}

\* untar(outdir, tarball, force)
Untar(outdir, members, frc) ==
  LET r == untar(fs[outdir], members, frc)
  IN /\ call' = [NoCall EXCEPT !.op = "untar", !.path = outdir, !.members = members,
                               !.force_arg = IF frc THEN "True" ELSE "False",
                               !.before = fs[outdir]]
     /\ fs' = [fs EXCEPT ![outdir] = r.path]
     /\ ret' = r.res
     /\ UNCHANGED <<verVars, git, tmp_exists, keyring, pc, arch, dl_version, log,
                    plugVars, quiltVars>>

InitUntar ==
  /\ IdleVersions
  /\ git = TRUE /\ tmp_exists = TRUE /\ keyring = FALSE
  /\ fs \in [Paths -> OutdirStates]
  /\ pc = "idle" /\ arch = 1 /\ dl_version = <<>> /\ log = <<>>
  /\ IdlePlugins /\ IdleQuilt
  /\ call = NoCall
  /\ ret = NoRet

NextUntar ==
  \E outdir \in Paths, members \in SUBSET MemberNames, frc \in BOOLEAN :
    Untar(outdir, members, frc)

SpecUntar == InitUntar /\ [][NextUntar]_vars

(***************************************************************************)
(* Claims about download, checked under SpecDownload, and about untar,     *)
(* checked under SpecUntar.                                                *)
(***************************************************************************)
\* A download() call was refused by the ".git" guard.
RefusedByGuard == ret.kind = "raise" /\ ret.msg = "No '.git' dir found"

\* C1: download(version, force) without ".git" raises WebminUpdateError
\* before any fetch, check or extraction when neither the instance's force
\* flag nor the call's force argument is set; and with a force override, at
\* construction or as the argument, the missing ".git" does not fail the call.
C1_GuardHonoursOverrides ==
  (call.op = "download" /\ ~git) =>
    IF force \/ call.force_arg = "True"
    THEN ~RefusedByGuard
    ELSE RefusedByGuard /\ ret.exc = "WebminUpdateError" /\ log = <<>>

\* C9: untar on an existing outdir without force raises WebminUpdateError
\* and leaves outdir as it was; on an existing outdir (a file or a
\* directory) with force, and on an absent outdir, it returns with outdir a
\* directory that holds just the members of the archive.
C9_UntarContract ==
  call.op = "untar" =>
    IF call.before.kind # "absent" /\ call.force_arg = "False"
    THEN /\ ret.kind = "raise" /\ ret.exc = "WebminUpdateError"
         /\ fs[call.path] = call.before
    ELSE ret.kind = "return" /\ fs[call.path] = Dir(call.members)

\* The places of the log with a given kind of event.
EventsOf(ev) == {i \in 1..Len(log) : log[i].ev = ev}

\* C10: in every run of download an archive is extracted only after the
\* signature check of that same archive succeeded; the keyring import comes
\* before the first check and at most once; and a failed fetch, import or
\* check is the last thing the run does: nothing is fetched, checked or
\* extracted after it.
C10_VerifyBeforeExtract ==
  /\ \A i \in EventsOf("untar") :
       \E j \in 1..(i - 1) : log[j] = Event("verify", log[i].file, TRUE)
  /\ Cardinality(EventsOf("import")) <= 1
  /\ \A i \in EventsOf("import") : \A j \in EventsOf("verify") : i < j
  /\ \A i \in 1..Len(log) : ~log[i].ok => (i = Len(log) /\ pc = "idle" /\ ret.kind = "raise")

\* C10 witness: a run that imported the key, checked and extracted both
\* archives, and returned.
C10_Witness ==
  /\ call.op = "download" /\ pc = "idle" /\ ret.kind = "return"
  /\ EventsOf("import") # {}
  /\ Cardinality(EventsOf("untar")) = 2

(***************************************************************************)
(* Webmin.load_plugins and Webmin.dump_control.                            *)
(***************************************************************************)
\* Webmin.get_local_version(path) without force: a missing or empty version
\* file (the empty string here) raises.
get_local_version(version_file) ==
  IF version_file = <<>> THEN Raise("WebminUpdateError", "No version found")
  ELSE Return(version_file)

\* Webmin.valid_version(webmin_all_path, webmin_min_path, version)
valid_version(all_version, min_v, version) ==
  IF get_local_version(all_version).kind = "raise" THEN get_local_version(all_version)
  ELSE IF get_local_version(min_v).kind = "raise" THEN get_local_version(min_v)
  ELSE IF all_version = min_v /\ (version # <<>> => version = all_version)
       THEN Return(<<>>)
  ELSE Raise("WebminUpdateError", "version validation failed")

\* The state load_plugins works on: the full tree, the registered plugins,
\* the plugin directories, the names constructed, and the result so far.
LoadState(tree, mods, thms, dirs, made, res) ==
  [full |-> tree, modules |-> mods, themes |-> thms, plugin_dirs |-> dirs,
   constructed |-> made, res |-> res]

Failed(st, res) == [st EXCEPT !.res = res]

\* Plugin.move() into CWD/<type>s and the registration of the plugin: a link
\* gets a new placeholder directory (os.makedirs), a directory is renamed.
MoveAndRegister(st, p, dir) ==
  IF p.link # <<>> /\ p.name \in st.plugin_dirs[dir]
  THEN Failed(st, Raise("FileExistsError", "os.makedirs"))
  ELSE [st EXCEPT !.full[p.name] = IF p.link # <<>> THEN @ ELSE NoEntry,
                  !.plugin_dirs[dir] = @ \cup {p.name},
                  ![dir] = Append(@, p)]

\* A constructed plugin: skipped when not supported on Debian.
Candidate(st, p) ==
  IF ~debian_support(p.os_support) THEN st
  ELSE MoveAndRegister(st, p, IF p.type = "module" THEN "modules" ELSE "themes")

\* One round of the loop over full_only.
PluginStep(st, item, e, version, full_only) ==
  IF e.kind = "file" THEN Failed(st, Raise("WebminUpdateError", "Unexpected file"))
  ELSE IF e.info_file = "none"
       THEN Failed(st, Raise("WebminUpdateError", "Module/theme info file not found"))
  ELSE IF e.malformed THEN Failed(st, Raise("ValueError", "_read_info"))
  ELSE Candidate([st EXCEPT !.constructed = Append(@, item)],
                 NewPlugin(item, e, version, full_only))

RECURSIVE PluginLoop(_, _, _, _)
PluginLoop(items, st, version, full_only) ==
  IF items = <<>> \/ st.res.kind = "raise" THEN st
  ELSE PluginLoop(Drop(items, 1),
                  PluginStep(st, items[1], st.full[items[1]], version, full_only),
                  version, full_only)

\* dircmp(...).right_only: the names only in the full tree, sorted.
RightOnly(tree) == SelectSeq(NameOrder, LAMBDA n : tree[n].kind # "absent")

\* load_plugins once the versions are validated.
ClassifyAndLoad(st, left_only, version) ==
  IF left_only # <<MINIMAL_INSTALL>>
  THEN Failed(st, Raise("WebminUpdateError", "unexpected objects"))
  ELSE PluginLoop(RightOnly(st.full), st, version, RightOnly(st.full))

\* The version file of the full tree.
AllVersion == V10

\* Webmin.load_plugins(webmin_all_path, webmin_min_path, version, skip_validation)
LoadPlugins(version, skip_validation) ==
  LET v == IF skip_validation THEN Return(<<>>)
           ELSE valid_version(AllVersion, min_version, version)
      st == ClassifyAndLoad(LoadState(full, <<>>, <<>>, plugin_dirs, <<>>, Return(<<>>)),
                            core_only, version)
  IN /\ call' = [NoCall EXCEPT !.op = "load_plugins", !.version = version,
                               !.skip_validation = skip_validation,
                               !.core_only = core_only, !.full = full]
     /\ IF v.kind = "raise"
        THEN /\ ret' = v
             /\ UNCHANGED <<full, modules, themes, loaded, constructed, plugin_dirs>>
        ELSE /\ ret' = st.res
             /\ full' = st.full
             /\ modules' = st.modules
             /\ themes' = st.themes
             /\ loaded' = IF st.res.kind = "return" THEN "yes" ELSE "raised"
             /\ constructed' = st.constructed
             /\ plugin_dirs' = st.plugin_dirs
     /\ UNCHANGED <<verVars, dlVars, core_only, min_version, plugin, trim, webmin_core,
                   quiltVars>>

\* sorted(plugins, key=name): the names are those of NameOrder.
RECURSIVE SortedByName(_, _)
SortedByName(plugins, names) ==
  IF names = <<>> THEN <<>>
  ELSE SelectSeq(plugins, LAMBDA p : p.name = names[1])
       \o SortedByName(plugins, Drop(names, 1))

Controls(plugins) == [i \in 1..Len(plugins) |-> control(plugins[i])]

\* Webmin.dump_control: the stanzas of the control document.
dump_control(mods, thms) ==
  <<source_control, webmin_core_control>>
    \o Controls(SortedByName(mods \o thms, NameOrder))

DumpControl ==
  /\ call' = [NoCall EXCEPT !.op = "dump_control"]
  /\ ret' = IF loaded # "no" THEN Return(dump_control(modules, themes))
            ELSE Raise("AttributeError", "modules")
  /\ UNCHANGED <<verVars, dlVars, plugVars, quiltVars>>

\* The directories a full tree may hold under a name.
PluginDirs ==
  { Entry("dir", "none", FALSE, <<>>, <<>>, <<>>),
    Entry("dir", "module", TRUE, <<>>, <<>>, <<>>),
    PluginDir("module", <<>>, <<>>),
    PluginDir("module", <<"w", "i", "n", "d", "o", "w", "s">>, <<>>),
    PluginDir("module", <<"*", "-", "l", "i", "n", "u", "x">>, RAID),
    PluginDir("theme", <<"d", "e", "b", "i", "a", "n", "-", "l", "i", "n", "u", "x">>, LVM),
    PluginDir("module", <<"!", "w", "i", "n", "d", "o", "w", "s">>, <<"f", "d", "i", "s", "k", " ", "1", ".", "0">>),
    Entry("dir", "theme", FALSE, <<>>, <<>>, RAID) }

InitPlugins ==
  /\ IdleVersions /\ IdleDownload /\ IdleQuilt
  /\ core_only \in {<<>>, <<MINIMAL_INSTALL>>, <<EXTRA>>, <<EXTRA, MINIMAL_INSTALL>>}
  /\ full \in [PluginNames -> {NoEntry, FileEntry} \cup PluginDirs]
  /\ min_version \in {V10, V11}
  /\ modules = <<>> /\ themes = <<>> /\ loaded = "no" /\ constructed = <<>>
  /\ plugin_dirs = [modules |-> {}, themes |-> {}]
  /\ plugin = NoPlugin
  /\ trim = NoTrim
  /\ webmin_core = Absent
  /\ call = NoCall
  /\ ret = NoRet

NextPlugins ==
  \/ \E v \in {<<>>, V10}, skip \in BOOLEAN : LoadPlugins(v, skip)
  \/ DumpControl

SpecPlugins == InitPlugins /\ [][NextPlugins]_vars

(***************************************************************************)
(* Plugin.control asked of one plugin.                                     *)
(***************************************************************************)
DependsPieces == {RAID, <<" ">>, <<"x">>, <<"2">>}

\* The depends values of the model: the pieces put one after the other; the
\* value of an info file has no whitespace at its end.
RawDepends ==
  {d \in {Join(ps, <<>>) : ps \in SeqsUpTo(DependsPieces, MaxPieces)} :
     d = <<>> \/ d[Len(d)] # " "}

\* Plugin(...).control
Control ==
  /\ call' = [NoCall EXCEPT !.op = "control"]
  /\ ret' = Return(<<control(plugin)>>)
  /\ UNCHANGED <<verVars, dlVars, plugVars, quiltVars>>

InitControl ==
  /\ IdleVersions /\ IdleDownload /\ IdleQuilt
  /\ core_only = <<>> /\ full = [n \in PluginNames |-> NoEntry] /\ min_version = <<>>
  /\ modules = <<>> /\ themes = <<>> /\ loaded = "no" /\ constructed = <<>>
  /\ plugin_dirs = [modules |-> {}, themes |-> {}]
  /\ \E name \in PluginNames, depends \in RawDepends,
        mods \in {<<>>, <<RAID>>, <<<<"x">>>>, <<RAID, <<"x">>>>} :
       plugin = NewPlugin(name, PluginDir("module", <<>>, depends), V10, mods)
  /\ trim = NoTrim
  /\ webmin_core = Absent
  /\ call = NoCall
  /\ ret = NoRet

NextControl == Control

SpecControl == InitControl /\ [][NextControl]_vars

(***************************************************************************)
(* Webmin._update_quilt_patch.                                             *)
(***************************************************************************)
LAST_UPDATE == <<"L", "a", "s", "t", "-", "U", "p", "d", "a", "t", "e", ":">>

\* f"Last-Update: {today}\n", the day being the one of the run.
LastUpdateToday == <<"L", "a", "s", "t", "-", "U", "p", "d", "a", "t", "e", ":", " ", "2", "0", "2", "6", "-", "0", "1", "-", "0", "1", "\n">>

\* line[0] in ["-", "+"] and old_version in line, for a line that is not the
\* Last-Update line.
IsVersionLine(line, old_version) ==
  /\ ~StartsWith(line, LAST_UPDATE)
  /\ line[1] \in {"-", "+"}
  /\ Contains(line, old_version)

\* The line written for a line read.
RewriteLine(line, old_version, new_version) ==
  IF StartsWith(line, LAST_UPDATE) THEN LastUpdateToday
  ELSE IF IsVersionLine(line, old_version) THEN Replace(line, old_version, new_version)
  ELSE line

\* The value of changed_lines after the loop.
ChangedLines(lines, old_version) ==
  Len(SelectSeq(lines, LAMBDA line : IsVersionLine(line, old_version)))

\* changed_lines != 0 and changed_lines % 2 == 0
CountOkNonZero(changed_lines) == changed_lines # 0
CountOk(changed_lines) == changed_lines # 0 /\ changed_lines % 2 = 0

\* The result once the file is rewritten.
QuiltResult(changed_lines) ==
  IF CountOk(changed_lines) THEN Return(<<changed_lines>>)
  ELSE Raise("WebminUpdateError", "Incorect number of version changes")

\* Webmin._update_quilt_patch(old_version, new_version): the file after the
\* call and the result. A file that cannot be opened for reading or for
\* writing is an OSError and is left as it is.
_update_quilt_patch(p, old_version, new_version) ==
  IF ~p.exists \/ ~p.writable
  THEN [patch |-> p, res |-> Raise("WebminUpdateError", "OSError")]
  ELSE [patch |-> [p EXCEPT !.lines = [i \in 1..Len(p.lines) |->
                              RewriteLine(p.lines[i], old_version, new_version)]],
        res |-> QuiltResult(ChangedLines(p.lines, old_version))]

UpdateQuiltPatch(old_version, new_version) ==
  /\ call' = [NoCall EXCEPT !.op = "_update_quilt_patch", !.old = old_version,
                            !.new = new_version, !.patch = patch]
  /\ patch' = _update_quilt_patch(patch, old_version, new_version).patch
  /\ ret' = _update_quilt_patch(patch, old_version, new_version).res
  /\ UNCHANGED <<verVars, dlVars, plugVars>>

\* The lines a patch is made of.
PatchLines ==
  { <<"L", "a", "s", "t", "-", "U", "p", "d", "a", "t", "e", ":", " ", "2", "0", "2", "5", "-", "0", "1", "-", "0", "1", "\n">>,
    <<"-", "1", ".", "0", "\n">>,
    <<"+", "1", ".", "0", "\n">>,
    <<" ", "1", ".", "0", "\n">>,
    <<"-", "x", "\n">>,
    <<"+", "1", ".", "0", " ", "1", ".", "0", "\n">> }

InitQuilt ==
  /\ IdleVersions /\ IdleDownload /\ IdlePlugins
  /\ \/ patch = NoPatch
     \/ \E w \in BOOLEAN, lines \in SeqsUpTo(PatchLines, MaxPatchLines) :
          patch = [exists |-> TRUE, writable |-> w, lines |-> lines]
  /\ call = NoCall
  /\ ret = NoRet

NextQuilt == \E old_version \in {V10, V11}, new_version \in {V10, V11} :
               UpdateQuiltPatch(old_version, new_version)

SpecQuilt == InitQuilt /\ [][NextQuilt]_vars

(***************************************************************************)
(* Claims about the plugins, checked under SpecPlugins and SpecControl.    *)
(***************************************************************************)
\* The fields of s between the occurrences of the character c.
RECURSIVE FieldsBy(_, _, _)
FieldsBy(s, c, cur) ==
  IF s = <<>> THEN <<cur>>
  ELSE IF s[1] = c THEN <<cur>> \o FieldsBy(Drop(s, 1), c, <<>>)
  ELSE FieldsBy(Drop(s, 1), c, Append(cur, s[1]))

\* s.strip()
RECURSIVE Strip(_)
Strip(s) ==
  IF s # <<>> /\ s[1] \in Whitespace THEN Strip(Drop(s, 1))
  ELSE IF s # <<>> /\ s[Len(s)] \in Whitespace THEN Strip(Take(s, Len(s) - 1))
  ELSE s

\* The dependencies a Depends value lists.
DepsOf(value) ==
  LET f == FieldsBy(value, ",", <<>>) IN {Strip(f[i]) : i \in 1..Len(f)} \ {<<>>}

\* The webmin-<name> dependencies of a Depends value, as plugin names.
PluginDepsOf(value) ==
  {Drop(d, 7) : d \in {x \in DepsOf(value) : StartsWith(x, <<"w", "e", "b", "m", "i", "n", "-">>)}}

Registered == {modules[i].name : i \in 1..Len(modules)} \cup {themes[i].name : i \in 1..Len(themes)}

\* C3: every dependency webmin-<name> in the Depends field of a plugin
\* stanza of the document dump_control produces after load_plugins names a
\* plugin packaged in that run: registered in modules or themes and with a
\* stanza of its own in the document.
C3_DependsOnlyOnPackaged ==
  (call.op = "dump_control" /\ ret.kind = "return" /\ loaded = "yes") =>
    \A i \in 3..Len(ret.val) :
      \A name \in PluginDepsOf(ret.val[i].Depends) :
        /\ name \in Registered
        /\ \E j \in 3..Len(ret.val) : ret.val[j].Package = <<"w", "e", "b", "m", "i", "n", "-">> \o name

\* C6: the fixups act on tokens. For fdisk the rendered Depends has no
\* webmin-raid when the raw string contains "raid" and every other plugin
\* dependency is a token of the raw string; for lvm the rendered Depends has
\* webmin-raid whenever raid is installable.
C6_FixupsActOnTokens ==
  call.op = "control" =>
    LET deps == PluginDepsOf(ret.val[1].Depends)
    IN /\ plugin.name = FDISK =>
            /\ Contains(plugin.depends, RAID) => RAID \notin deps
            /\ deps \subseteq Range(Split(plugin.depends))
       /\ (plugin.name = LVM /\ InList(RAID, plugin.installable_mods)) => RAID \in deps

\* The names only in the full tree when load_plugins was called.
FullOnlyBefore == {n \in PluginNames : call.full[n].kind # "absent"}

\* C7: load_plugins returns only when the minimal-only names are exactly
\* {"minimal-install"} and no full-only name is a regular file, and raises
\* WebminUpdateError otherwise; when it returns, one Plugin was constructed
\* per full-only name and the registered modules and themes are exactly the
\* candidates whose os_support is accepted.
C7_ClassifyChecks ==
  call.op = "load_plugins" =>
    LET expected == /\ Range(call.core_only) = {MINIMAL_INSTALL}
                    /\ \A n \in FullOnlyBefore : call.full[n].kind # "file"
    IN /\ ret.kind = "return" => expected
       /\ ~expected => (ret.kind = "raise" /\ ret.exc = "WebminUpdateError")
       /\ ret.kind = "return" =>
            /\ Len(constructed) = Cardinality(FullOnlyBefore)
            /\ Range(constructed) = FullOnlyBefore
            /\ Registered = {n \in FullOnlyBefore : debian_support(call.full[n].os_support)}

(***************************************************************************)
(* Claims about the quilt patch, checked under SpecQuilt.                  *)
(***************************************************************************)
\* The lines of the patch, as the call found it, that begin with the sign
\* and contain the old version.
SignedMatches(sign) ==
  {i \in 1..Len(call.patch.lines) :
     call.patch.lines[i][1] = sign /\ Contains(call.patch.lines[i], call.old)}

\* The number of lines the call replaced: none when the file could not be
\* rewritten.
ReplacedCount ==
  IF call.patch.exists /\ call.patch.writable
  THEN Cardinality(SignedMatches("-") \cup SignedMatches("+"))
  ELSE 0

\* C8: _update_quilt_patch returns if and only if the number of replaced
\* lines (those beginning with "-" or "+" and containing old_version) is
\* positive and even, and raises WebminUpdateError otherwise; the count
\* returned is that number.
C8_SucceedsIffPositiveEven ==
  call.op = "_update_quilt_patch" =>
    /\ ret.kind = "return" <=> (ReplacedCount > 0 /\ ReplacedCount % 2 = 0)
    /\ ret.kind = "return" => ret.val = <<ReplacedCount>>
    /\ ret.kind # "return" => (ret.kind = "raise" /\ ret.exc = "WebminUpdateError")

\* C8 witness: one matching "-" line and one matching "+" line, two
\* substitutions, and the call returned.
C8_Witness ==
  /\ call.op = "_update_quilt_patch"
  /\ Cardinality(SignedMatches("-")) = 1 /\ Cardinality(SignedMatches("+")) = 1
  /\ ret.kind = "return" /\ ret.val = <<2>>
  /\ call.old # call.new
  /\ \A i \in 1..Len(patch.lines) :
       patch.lines[i][1] \in {"-", "+"} => ~Contains(patch.lines[i], call.old)

(***************************************************************************)
(* trim_line, one round of its loop at a time.                             *)
(***************************************************************************)
\* line[a:b] with Python's 0-based bounds, for a <= b.
Slice(s, a, b) == SubSeq(s, a + 1, IF b < Len(s) THEN b ELSE Len(s))

\* The characters of a line.
LineChars == {"x", " ", "\n"}

\* lines_to_return.append(v). The list grows without limit in a run that
\* does not end: the model keeps its first MaxChars + 1 entries, more than
\* a run that ends appends.
AppendLine(lst, v) == IF Len(lst) <= MaxChars THEN Append(lst, v) ELSE lst

\* last_safe_split after the test of line[i].
SafeSplit(t) == IF t.line[t.i + 1] = " " THEN t.i ELSE t.last_safe_split

\* One round of the loop for a position inside the line.
TrimRound(t, split) ==
  IF t.i - t.start_index >= t.line_length
  THEN [t EXCEPT !.last_safe_split = split,
                 !.lines_to_return = AppendLine(@, Strip(Slice(t.line, t.start_index, split))),
                 !.start_index = split,
                 !.i = split]
  ELSE [t EXCEPT !.last_safe_split = split, !.i = t.i + 1]

\* The value trim_line returns once i is past the end of the line.
TrimResult(t) == Append(t.lines_to_return, Strip(Slice(t.line, t.start_index, Len(t.line))))

\* trim_line(line, line_length) up to the loop.
TrimLineStart(line, line_length) ==
  /\ trim.pc # "loop"
  /\ trim' = [NoTrim EXCEPT !.pc = "loop", !.line = Replace(line, <<"\n">>, <<" ">>),
                            !.line_length = line_length]
  /\ call' = [NoCall EXCEPT !.op = "trim_line"]
  /\ ret' = NoRet
  /\ UNCHANGED <<verVars, dlVars, core_only, full, min_version, modules, themes, loaded,
                 constructed, plugin_dirs, plugin, webmin_core, quiltVars>>

\* One round of while True.
TrimLineStep ==
  /\ trim.pc = "loop"
  /\ IF Len(trim.line) <= trim.i
     THEN /\ trim' = [trim EXCEPT !.pc = "done"]
          /\ ret' = Return(TrimResult(trim))
     ELSE /\ trim' = TrimRound(trim, SafeSplit(trim))
          /\ ret' = ret
  /\ UNCHANGED <<verVars, dlVars, core_only, full, min_version, modules, themes, loaded,
                 constructed, plugin_dirs, plugin, webmin_core, quiltVars, call>>

InitTrim ==
  /\ IdleVersions /\ IdleDownload /\ IdlePlugins /\ IdleQuilt
  /\ call = NoCall
  /\ ret = NoRet

NextTrim ==
  \/ \E line \in SeqsUpTo(LineChars, MaxChars), line_length \in 2..MaxWidth :
       TrimLineStart(line, line_length)
  \/ TrimLineStep

SpecTrim == InitTrim /\ [][NextTrim]_vars

\* The loop is sequential code: a round that can run does run.
SpecTrimLive == SpecTrim /\ WF_vars(TrimLineStep)

(***************************************************************************)
(* Claims about trim_line, checked under SpecTrimLive.                     *)
(***************************************************************************)
\* C11: every call of trim_line ends: a call that entered the loop returns
\* its list of lines, also for a line with a run of line_length or more
\* characters without a space.
C11_TrimLineTerminates == (trim.pc = "loop") ~> (trim.pc = "done")

(***************************************************************************)
(* Webmin.update: the version, _clean_paths, download() through the steps  *)
(* above, then the move of the minimal tree, load_plugins and the patch.   *)
(***************************************************************************)
\* WEBMIN_CORE holding the minimal tree of a version.
CoreTree(version) == Dir({WebminDir(version)})

\* Webmin._clean_paths: TMP, MODULES, THEMES and WEBMIN_CORE are removed
\* with all they hold and made again, empty.
_clean_paths ==
  [tmp_exists |-> TRUE, keyring |-> FALSE, fs |-> [p \in Paths |-> Absent],
   plugin_dirs |-> [modules |-> {}, themes |-> {}], webmin_core |-> Dir({})]

\* Where a run of update() stands: whether _clean_paths ran, the cached
\* list, the place in download(), the result and the version to fetch.
Run(clean, cache, at, res, version) ==
  [clean |-> clean, cache |-> cache, pc |-> at, ret |-> res, dl_version |-> version]

\* download(version, force) inside update(), after its guard, given its
\* call of get_remote_version(version).
DownloadVersion(d) ==
  IF d.res.kind = "raise" THEN Run(TRUE, d.cache, "idle", d.res, dl_version)
  ELSE Run(TRUE, d.cache, "get_tarball", NoRet, d.res.val)

\* self._clean_paths() and self.download(version, force) up to the first
\* fetch.
CleanAndDownload(cache, version, frc) ==
  IF DownloadRefused(git, force, IF frc THEN "True" ELSE "False")
  THEN Run(TRUE, cache, "idle", Raise("WebminUpdateError", "No '.git' dir found"), dl_version)
  ELSE DownloadVersion(RemoteVersionCall(cache, version, TRUE, FALSE))

\* update(version, force) from the version it resolved (r) on.
UpdateBegin(r, frc) ==
  IF r.res.kind = "raise" THEN Run(FALSE, r.cache, "idle", r.res, dl_version)
  ELSE IF r.res.val = local_version /\ ~frc
       THEN Run(FALSE, r.cache, "idle", Return(<<"False">>), dl_version)
  ELSE CleanAndDownload(r.cache, r.res.val, frc)

\* update(version, force) up to the first fetch of download().
UpdateStart(version, force_arg) ==
  LET u == UpdateBegin(RemoteVersionCall(remote_versions,
                                         IF version = <<>> THEN LATEST ELSE version,
                                         TRUE, FALSE),
                       IF force_arg = "None" THEN force ELSE force_arg = "True")
  IN /\ pc = "idle"
     /\ call' = [NoCall EXCEPT !.op = "update", !.version = version,
                               !.force_arg = force_arg,
                               !.trees = [plugin_dirs |-> plugin_dirs,
                                          webmin_core |-> webmin_core]]
     /\ log' = <<>>
     /\ arch' = 1
     /\ remote_versions' = u.cache
     /\ pc' = u.pc
     /\ ret' = u.ret
     /\ dl_version' = u.dl_version
     /\ tmp_exists' = (IF u.clean THEN _clean_paths.tmp_exists ELSE tmp_exists)
     /\ keyring' = (IF u.clean THEN _clean_paths.keyring ELSE keyring)
     /\ fs' = (IF u.clean THEN _clean_paths.fs ELSE fs)
     /\ plugin_dirs' = (IF u.clean THEN _clean_paths.plugin_dirs ELSE plugin_dirs)
     /\ webmin_core' = (IF u.clean THEN _clean_paths.webmin_core ELSE webmin_core)
     /\ UNCHANGED <<gh_ok, gh_stdout, force, local_version, git, core_only, full,
                    min_version, modules, themes, loaded, constructed, plugin, trim,
                    quiltVars>>

\* update() after download(): os.rename of TMP/core/webmin-<version> to
\* WEBMIN_CORE, load_plugins(TMP/all/webmin-<version>, version=version),
\* _update_quilt_patch(self.local_version, version). The version file of the
\* full tree is the version fetched or another.
UpdateFinish ==
  /\ pc = "rename"
  /\ pc' = "idle"
  /\ webmin_core' = CoreTree(dl_version)
  /\ fs' = [fs EXCEPT !["core"] = Dir({})]
  /\ \E all_version \in {dl_version, AllVersion} :
       LET v == valid_version(all_version, min_version, dl_version)
           st == ClassifyAndLoad(LoadState(full, <<>>, <<>>, plugin_dirs, <<>>, Return(<<>>)),
                                 core_only, dl_version)
           q == _update_quilt_patch(patch, local_version, dl_version)
       IN IF v.kind = "raise"
          THEN /\ ret' = v
               /\ UNCHANGED <<full, modules, themes, loaded, constructed, plugin_dirs, patch>>
          ELSE /\ full' = st.full
               /\ modules' = st.modules
               /\ themes' = st.themes
               /\ loaded' = IF st.res.kind = "return" THEN "yes" ELSE "raised"
               /\ constructed' = st.constructed
               /\ plugin_dirs' = st.plugin_dirs
               /\ IF st.res.kind = "raise" THEN ret' = st.res /\ UNCHANGED patch
                  ELSE /\ patch' = q.patch
                       /\ ret' = IF q.res.kind = "raise" THEN q.res ELSE Return(<<"True">>)
  /\ UNCHANGED <<verVars, git, tmp_exists, keyring, arch, dl_version, log, core_only,
                 min_version, plugin, trim, call>>

\* The full-only entries of the archive fetched.
ArchiveTrees ==
  { [n \in PluginNames |-> NoEntry],
    [n \in PluginNames |-> IF n = FDISK THEN PluginDir("module", <<>>, <<>>) ELSE NoEntry],
    [n \in PluginNames |-> IF n = LVM THEN FileEntry ELSE NoEntry] }

\* The quilt patch of the checkout.
VersionPatch ==
  [exists |-> TRUE, writable |-> TRUE,
   lines |-> << <<"-", "1", ".", "0", "\n">>, <<"+", "1", ".", "0", "\n">> >>]

\* An instance made from WEBMIN_CORE/version.
InitUpdate ==
  /\ gh_ok = TRUE
  /\ gh_stdout \in {<<V11, V10>>, <<V10>>}
  /\ force \in BOOLEAN
  /\ local_version = V10 /\ webmin_core = CoreTree(V10)
  /\ remote_versions = <<>>
  /\ git \in BOOLEAN
  /\ tmp_exists = TRUE /\ keyring = FALSE /\ fs = [p \in Paths |-> Absent]
  /\ pc = "idle" /\ arch = 1 /\ dl_version = <<>> /\ log = <<>>
  /\ core_only \in {<<MINIMAL_INSTALL>>, <<EXTRA>>}
  /\ full \in ArchiveTrees
  /\ min_version \in {V10, V11}
  /\ modules = <<>> /\ themes = <<>> /\ loaded = "no" /\ constructed = <<>>
  /\ plugin_dirs \in {[modules |-> {}, themes |-> {}], [modules |-> {RAID}, themes |-> {LVM}]}
  /\ plugin = NoPlugin
  /\ trim = NoTrim
  /\ patch \in {NoPatch, VersionPatch}
  /\ call = NoCall
  /\ ret = NoRet

NextUpdate ==
  \/ \E v \in {<<>>, V11}, f \in {"None", "True", "False"} : UpdateStart(v, f)
  \/ FetchTarball
  \/ FetchSig
  \/ ImportKey
  \/ Verify
  \/ Extract
  \/ UpdateFinish

SpecUpdate == InitUpdate /\ [][NextUpdate]_vars

(***************************************************************************)
(* Claims about update, checked under SpecUpdate.                          *)
(***************************************************************************)
\* A listed stable version is newer than the local one.
NewerRemote ==
  \E i \in 1..Len(gh_stdout) :
    /\ ValidVersion(gh_stdout[i]) /\ ~is_prerelease(Version(gh_stdout[i]))
    /\ VersionLess(Version(local_version), Version(gh_stdout[i]))

\* C12: update() for the latest version, with a newer remote version, no
\* ".git" and no force (on the instance or as the argument) raises
\* WebminUpdateError and leaves the directories modules, themes and
\* webmin_core as they were when it was called.
C12_RefusedUpdateKeepsTrees ==
  (/\ call.op = "update" /\ call.version = <<>> /\ pc = "idle"
   /\ NewerRemote /\ ~git /\ ~force /\ call.force_arg # "True") =>
    /\ ret.kind = "raise" /\ ret.exc = "WebminUpdateError"
    /\ plugin_dirs = call.trees.plugin_dirs
    /\ webmin_core = call.trees.webmin_core

=============================================================================
